---------------------------- MODULE Spec2Model ----------------------------
(***************************************************************************)
(* Model of src/src/DataManipulator.ts: the static class DataManipulator,  *)
(* its process-wide movingAverageQueue and the generateRow pipeline         *)
(* (mid-price, ratio, moving average, bounds, signal, row).                 *)
(*                                                                         *)
(* Numbers are JavaScript numbers, i.e. binary floating point with         *)
(* round-to-nearest-even, +Infinity, -Infinity and NaN.  The model keeps   *)
(* the format and its rounding but with a significand of Precision bits    *)
(* (a double has 53) and no exponent limit.  -0 is identified with +0: the *)
(* code only compares zeros with < and >, which cannot tell them apart,    *)
(* and the feeds below never deliver a -0 price, so no divisor is -0.      *)
(***************************************************************************)
EXTENDS Integers, Sequences, FiniteSets

(***************************************************************************)
(* Bounds of the model.                                                    *)
(***************************************************************************)
Precision == 5        \* bits in a significand
MaxCalls == 12        \* generateRow calls in the long single-stream run
MaxRowCalls == 2      \* generateRow calls in the wide-feed run
MaxStreamCalls == 4   \* generateRow calls in the two-stream run

(***************************************************************************)
(* Floating point.  A number is [k, m, e]: k = "fin" with value m * 2^e    *)
(* (m odd, or m = 0 and e = 0), k = "inf" with m = 1 or -1, or k = "nan".  *)
(***************************************************************************)
Abs(x) == IF x < 0 THEN -x ELSE x

Sign(x) == IF x < 0 THEN -1 ELSE 1

Min(x, y) == IF x < y THEN x ELSE y

NaN == [k |-> "nan", m |-> 0, e |-> 0]

Inf(s) == [k |-> "inf", m |-> s, e |-> 0]

RECURSIVE Norm(_, _, _)
Norm(s, n, e) ==
  IF n = 0 THEN [k |-> "fin", m |-> 0, e |-> 0]
  ELSE IF n % 2 = 0 THEN Norm(s, n \div 2, e + 1)
  ELSE [k |-> "fin", m |-> s * n, e |-> e]

RECURSIVE BitLen(_)
BitLen(n) == IF n = 0 THEN 0 ELSE 1 + BitLen(n \div 2)

\* s * n * 2^e rounded to Precision bits, ties to even.
Round(s, n, e) ==
  LET sh == BitLen(n) - Precision IN
  IF sh <= 0 THEN Norm(s, n, e)
  ELSE LET q == n \div (2 ^ sh)
           r == n % (2 ^ sh)
           half == 2 ^ (sh - 1)
           up == r > half \/ (r = half /\ q % 2 = 1)
       IN Norm(s, IF up THEN q + 1 ELSE q, e + sh)

\* s * (n / d) * 2^e rounded; n >= 0, d > 0.  The quotient is taken to more
\* than Precision + 2 bits and a non-zero remainder is kept as a sticky bit.
QuotRound(s, n, d, e) ==
  LET K == Precision + 2 + BitLen(d)
      q == (n * (2 ^ K)) \div d
      rem == (n * (2 ^ K)) % d
      qs == IF rem # 0 /\ q % 2 = 0 THEN q + 1 ELSE q
  IN Round(s, qs, e - K)

\* The number literal n/d (n >= 0, d > 0), as the parser rounds it.
Lit(n, d) == QuotRound(1, n, d, 0)

F(i) == Round(Sign(i), Abs(i), 0)

Neg(a) == IF a.k = "nan" THEN a ELSE [a EXCEPT !.m = -a.m]

\* a + b
FAdd(a, b) ==
  IF a.k = "nan" \/ b.k = "nan" THEN NaN
  ELSE IF a.k = "inf" /\ b.k = "inf" THEN (IF a.m = b.m THEN a ELSE NaN)
  ELSE IF a.k = "inf" THEN a
  ELSE IF b.k = "inf" THEN b
  ELSE LET lo == Min(a.e, b.e)
           x == a.m * (2 ^ (a.e - lo)) + b.m * (2 ^ (b.e - lo))
       IN Round(Sign(x), Abs(x), lo)

FSub(a, b) == FAdd(a, Neg(b))

\* a / b
FDiv(a, b) ==
  IF a.k = "nan" \/ b.k = "nan" THEN NaN
  ELSE IF a.k = "inf" THEN (IF b.k = "inf" THEN NaN ELSE Inf(a.m * Sign(b.m)))
  ELSE IF b.k = "inf" THEN F(0)
  ELSE IF b.m = 0 THEN (IF a.m = 0 THEN NaN ELSE Inf(Sign(a.m)))
  ELSE QuotRound(Sign(a.m) * Sign(b.m), Abs(a.m), Abs(b.m), a.e - b.e)

\* a < b; false when either is NaN
FLt(a, b) ==
  IF a.k = "nan" \/ b.k = "nan" THEN FALSE
  ELSE IF a.k = "inf" THEN a.m = -1 /\ ~(b.k = "inf" /\ b.m = -1)
  ELSE IF b.k = "inf" THEN b.m = 1
  ELSE LET lo == Min(a.e, b.e)
       IN a.m * (2 ^ (a.e - lo)) < b.m * (2 ^ (b.e - lo))

\* a > b
FGt(a, b) == FLt(b, a)

\* a === b on numbers: NaN equals nothing
FEq(a, b) == a.k # "nan" /\ b.k # "nan" /\ a = b


(***************************************************************************)
(* DataManipulator                                                         *)
(***************************************************************************)
MOVING_AVERAGE_WINDOW == 10

THRESHOLD == Lit(5, 100)

\* The value undefined, in the shape of a number so that it can sit in a
\* field that holds numbers.
Undefined == [k |-> "undefined", m |-> 0, e |-> 0]

\* A ServerRespond as generateRow reads it.
Quote(ask, bid, ts) ==
  [top_ask |-> [price |-> ask], top_bid |-> [price |-> bid], timestamp |-> ts]

calculateMidPrice(data) == FDiv(FAdd(data.top_ask.price, data.top_bid.price), F(2))

\* Mutant: the comparison is inverted, so the earlier timestamp is returned.
getLatestTimestamp_earliest(serverResponds) ==
  IF serverResponds[1].timestamp < serverResponds[2].timestamp
  THEN serverResponds[1].timestamp
  ELSE serverResponds[2].timestamp

getLatestTimestamp(serverResponds) ==
  IF serverResponds[1].timestamp > serverResponds[2].timestamp
  THEN serverResponds[1].timestamp
  ELSE serverResponds[2].timestamp

\* queue.reduce((a, b) => a + b) on a non-empty array: a left fold that
\* starts from the first element.
RECURSIVE reduceSum(_)
reduceSum(queue) ==
  IF Len(queue) = 1 THEN queue[1]
  ELSE FAdd(reduceSum(SubSeq(queue, 1, Len(queue) - 1)), queue[Len(queue)])

\* Mutant: the eviction is missing.
updateMovingAverage_noShift(queue, ratio) ==
  LET pushed == Append(queue, ratio)
  IN [queue |-> pushed, average |-> FDiv(reduceSum(pushed), F(Len(pushed)))]

\* Mutant: the eviction removes the newest entry (pop) instead of the oldest.
updateMovingAverage_pop(queue, ratio) ==
  LET pushed == Append(queue, ratio)
      kept == IF Len(pushed) > MOVING_AVERAGE_WINDOW
              THEN SubSeq(pushed, 1, Len(pushed) - 1) ELSE pushed
  IN [queue |-> kept, average |-> FDiv(reduceSum(kept), F(Len(kept)))]

\* Mutant: the sum is divided by the window capacity instead of the length.
updateMovingAverage_byCapacity(queue, ratio) ==
  LET pushed == Append(queue, ratio)
      kept == IF Len(pushed) > MOVING_AVERAGE_WINDOW THEN Tail(pushed) ELSE pushed
  IN [queue |-> kept, average |-> FDiv(reduceSum(kept), F(MOVING_AVERAGE_WINDOW))]

\* Mutant: the average is taken before the current ratio is pushed.
updateMovingAverage_stale(queue, ratio) ==
  LET pushed == Append(queue, ratio)
      kept == IF Len(pushed) > MOVING_AVERAGE_WINDOW THEN Tail(pushed) ELSE pushed
  IN [queue |-> kept,
      average |-> IF Len(queue) = 0 THEN F(0)
                  ELSE FDiv(reduceSum(queue), F(Len(queue)))]

\* push, shift when longer than the window, then the average; the result is
\* the queue afterwards and the returned average.
updateMovingAverage(queue, ratio) ==
  LET pushed == Append(queue, ratio)
      kept == IF Len(pushed) > MOVING_AVERAGE_WINDOW THEN Tail(pushed) ELSE pushed
  IN [queue |-> kept, average |-> FDiv(reduceSum(kept), F(Len(kept)))]

\* Mutant: the SELL and BUY rules lose their comparison with the average.
generateSignal_noAverage(ratio, movingAverage, upperBound, lowerBound) ==
  IF FGt(ratio, upperBound) THEN "SELL"
  ELSE IF FLt(ratio, lowerBound) THEN "BUY"
  ELSE "undefined"

generateSignal(ratio, movingAverage, upperBound, lowerBound) ==
  IF FGt(ratio, upperBound) /\ FGt(ratio, movingAverage) THEN "SELL"
  ELSE IF FLt(ratio, lowerBound) /\ FLt(ratio, movingAverage) THEN "BUY"
  ELSE IF FGt(ratio, upperBound) \/ FLt(ratio, lowerBound) THEN "HOLD"
  ELSE "undefined"

\* Mutant: the breach test of trigger_alert is not strict.
triggerAlert_inclusive(ratio, upperBound, lowerBound) ==
  IF ~FLt(ratio, upperBound) \/ ~FGt(ratio, lowerBound) THEN ratio ELSE Undefined

\* (ratio > upperBound || ratio < lowerBound) ? ratio : undefined
triggerAlert(ratio, upperBound, lowerBound) ==
  IF FGt(ratio, upperBound) \/ FLt(ratio, lowerBound) THEN ratio ELSE Undefined

\* generateRow on the window `queue`: the Row returned and the window
\* afterwards.  The console.log of the signal changes no state.
generateRow(serverResponds, queue) ==
  LET priceABC == calculateMidPrice(serverResponds[1])
      priceDEF == calculateMidPrice(serverResponds[2])
      ratio == FDiv(priceABC, priceDEF)
      upd == updateMovingAverage(queue, ratio)
      movingAverage == upd.average
      upperBound == FAdd(F(1), THRESHOLD)
      lowerBound == FSub(F(1), THRESHOLD)
      signal == generateSignal(ratio, movingAverage, upperBound, lowerBound)
  IN [row |-> [price_abc |-> priceABC,
               price_def |-> priceDEF,
               ratio |-> ratio,
               timestamp |-> getLatestTimestamp(serverResponds),
               upper_bound |-> upperBound,
               lower_bound |-> lowerBound,
               trigger_alert |-> triggerAlert(ratio, upperBound, lowerBound),
               moving_average |-> movingAverage,
               signal |-> signal],
      queue |-> upd.queue]

(***************************************************************************)
(* State.                                                                  *)
(***************************************************************************)
VARIABLES
  movingAverageQueue,  \* the static window, shared by every caller
  result,              \* how the last generateRow call ended: "none", "Row"
  row,                 \* the Row the last call returned
  input,               \* the serverResponds of the last call
  caller,              \* the stream that made the last call (0: none yet)
  prevQueue,           \* the window before the last call
  history,             \* every ratio pushed so far, in order
  own,                 \* per stream: the window it would have if it owned one
  scenario,            \* which feed delivers the quote pairs
  sig                  \* arguments and result of a generateSignal application

vars == <<movingAverageQueue, result, row, input, caller, prevQueue, history,
          own, scenario, sig>>

UpperBound == FAdd(F(1), THRESHOLD)

LowerBound == FSub(F(1), THRESHOLD)

Same(x, ts) == Quote(x, x, ts)

Pair(abc, tsA, def, tsB) == <<Same(abc, tsA), Same(def, tsB)>>

\* Feeds of the long runs: two quote pairs each.
Feed(name) ==
  CASE name = "steady" -> {Pair(F(11), 1, F(10), 2), Pair(F(3), 2, F(4), 2)}
    [] name = "zeros"  -> {Pair(F(0), 1, F(0), 1), Pair(F(1), 2, F(1), 1)}
    [] name = "burst"  -> {Pair(F(1), 1, F(0), 2), Pair(F(1), 1, F(3), 2)}
    [] name = "debit"  -> {Pair(F(-1), 2, F(1), 2), Pair(UpperBound, 2, F(1), 3)}
    [] name = "streams" -> {Pair(F(11), 1, F(10), 2), Pair(F(3), 2, F(4), 2)}
    [] name = "wide" ->
         {<<a, b>> : a \in {Quote(p[1], p[2], t) :
                             p \in {<<UpperBound, UpperBound>>, <<LowerBound, LowerBound>>,
                                    <<F(1), F(1)>>, <<F(3), F(1)>>, <<F(0), F(0)>>,
                                    <<F(1), F(-3)>>},
                             t \in {1, 2}},
                     b \in {Quote(p[1], p[2], t) :
                             p \in {<<F(1), F(1)>>, <<F(0), F(0)>>, <<F(1), F(-3)>>},
                             t \in {1, 2}}}
    [] OTHER -> {}

LongFeeds == {"steady", "zeros", "burst", "debit"}

Streams(name) == IF name = "streams" THEN {1, 2} ELSE {1}

Limit(name) ==
  CASE name \in LongFeeds -> MaxCalls
    [] name = "wide" -> MaxRowCalls
    [] name = "streams" -> MaxStreamCalls
    [] OTHER -> 0

NoRow ==
  [price_abc |-> Undefined, price_def |-> Undefined, ratio |-> Undefined,
   timestamp |-> 0, upper_bound |-> Undefined, lower_bound |-> Undefined,
   trigger_alert |-> Undefined, moving_average |-> Undefined,
   signal |-> "undefined"]

NoSig ==
  [ratio |-> Undefined, movingAverage |-> Undefined, upperBound |-> Undefined,
   lowerBound |-> Undefined, out |-> "unset"]

Fresh ==
  /\ movingAverageQueue = <<>>
  /\ result = "none"
  /\ row = NoRow
  /\ input = <<>>
  /\ caller = 0
  /\ prevQueue = <<>>
  /\ history = <<>>
  /\ own = [s \in {1, 2} |-> <<>>]

Init == Fresh /\ scenario \in LongFeeds /\ sig = NoSig

InitRows == Fresh /\ scenario = "wide" /\ sig = NoSig

InitStreams == Fresh /\ scenario = "streams" /\ sig = NoSig

\* The values generateSignal is applied to.
SigVals ==
  {F(0), LowerBound, F(1), UpperBound, Lit(11, 10), F(2), Inf(1), Inf(-1), NaN}

InitSignal ==
  /\ Fresh
  /\ scenario = "signal"
  /\ sig \in [ratio : SigVals, movingAverage : SigVals, upperBound : SigVals,
              lowerBound : SigVals, out : {"unset"}]

\* One generateRow call by stream s.
GenerateRow(s, serverResponds) ==
  /\ Len(history) < Limit(scenario)
  /\ LET r == generateRow(serverResponds, movingAverageQueue)
     IN /\ movingAverageQueue' = r.queue
        /\ row' = r.row
        /\ history' = Append(history, r.row.ratio)
        /\ own' = [own EXCEPT ![s] = updateMovingAverage(own[s], r.row.ratio).queue]
  /\ result' = "Row"
  /\ input' = serverResponds
  /\ caller' = s
  /\ prevQueue' = movingAverageQueue
  /\ UNCHANGED <<scenario, sig>>

\* One application of generateSignal.
Classify ==
  /\ sig.out = "unset"
  /\ sig' = [sig EXCEPT !.out = generateSignal(sig.ratio, sig.movingAverage,
                                               sig.upperBound, sig.lowerBound)]
  /\ UNCHANGED <<movingAverageQueue, result, row, input, caller, prevQueue,
                 history, own, scenario>>

Next == \E s \in Streams(scenario), p \in Feed(scenario) : GenerateRow(s, p)

NextSignal == Classify

Spec == Init /\ [][Next]_vars

SpecRows == InitRows /\ [][Next]_vars

SpecStreams == InitStreams /\ [][Next]_vars

SpecSignal == InitSignal /\ [][NextSignal]_vars

(***************************************************************************)
(* Properties.                                                             *)
(***************************************************************************)
Called == result # "none"

IsZero(x) == x.k = "fin" /\ x.m = 0

IsNegative(x) == FLt(x, F(0))

Breach(r) == FGt(r.ratio, r.upper_bound) \/ FLt(r.ratio, r.lower_bound)

AllEqual(q) == \A i \in 1..Len(q) : q[i] = q[1]

\* The last n entries of q.
LastN(q, n) == SubSeq(q, Len(q) - n + 1, Len(q))

\* C1: between calls the window never holds more than MOVING_AVERAGE_WINDOW
\* ratios, however many generateRow calls have pushed into it.
C1_LengthWithinCapacity == Len(movingAverageQueue) <= MOVING_AVERAGE_WINDOW

C1_Witness ==
  /\ Len(history) > MOVING_AVERAGE_WINDOW
  /\ Len(movingAverageQueue) = MOVING_AVERAGE_WINDOW

\* C2: eviction is FIFO.  After n pushes the window is the last
\* min(n, MOVING_AVERAGE_WINDOW) pushed ratios in arrival order, and a push
\* onto a full window drops exactly its oldest entry.
C2_FifoEviction ==
  /\ movingAverageQueue =
       LastN(history, Min(Len(history), MOVING_AVERAGE_WINDOW))
  /\ Called =>
       movingAverageQueue =
         IF Len(prevQueue) = MOVING_AVERAGE_WINDOW
         THEN Append(Tail(prevQueue), row.ratio)
         ELSE Append(prevQueue, row.ratio)

C2_Witness ==
  /\ Len(history) = MOVING_AVERAGE_WINDOW + 2
  /\ history[1] # history[2]
  /\ history[2] # history[3]
  /\ history[MOVING_AVERAGE_WINDOW + 1] # history[MOVING_AVERAGE_WINDOW + 2]
  /\ movingAverageQueue[1] = history[3]

\* C3 (as claimed): a call whose second mid-price is 0 fails with
\* DivisionByZero and leaves the window as it was.
C3_DivisionByZeroRaised ==
  (Called /\ IsZero(calculateMidPrice(input[2]))) =>
    (result = "DivisionByZero" /\ movingAverageQueue = prevQueue)

\* C4: generateSignal is decided by the first matching rule of SELL, BUY,
\* HOLD, undefined; with the bounds in order, a breach of the upper bound by
\* a ratio that is <= the average gives HOLD.
C4_FirstMatchWins ==
  sig.out # "unset" =>
    LET r == sig.ratio
        avg == sig.movingAverage
        sell == FGt(r, sig.upperBound) /\ FGt(r, avg)
        buy == FLt(r, sig.lowerBound) /\ FLt(r, avg)
        breach == FGt(r, sig.upperBound) \/ FLt(r, sig.lowerBound)
    IN /\ (sig.out = "SELL") <=> sell
       /\ (sig.out = "BUY") <=> (~sell /\ buy)
       /\ (sig.out = "HOLD") <=> (~sell /\ ~buy /\ breach)
       /\ (sig.out = "undefined") <=> ~breach
       /\ (/\ ~FGt(sig.lowerBound, sig.upperBound)
           /\ FGt(r, sig.upperBound)
           /\ (FLt(r, avg) \/ FEq(r, avg))) => sig.out = "HOLD"

C4_Witness ==
  /\ sig.out = "HOLD"
  /\ FGt(sig.ratio, sig.upperBound)
  /\ FLt(sig.ratio, sig.movingAverage)
  /\ FLt(sig.lowerBound, sig.upperBound)

\* C5: in a returned Row trigger_alert is the ratio when the ratio is strictly
\* above upper_bound or strictly below lower_bound and undefined otherwise; a
\* ratio equal to a bound has neither a trigger_alert nor a signal.
C5_TriggerAlert ==
  result = "Row" =>
    /\ Breach(row) => row.trigger_alert = row.ratio
    /\ ~Breach(row) => row.trigger_alert = Undefined
    /\ (FEq(row.ratio, row.upper_bound) \/ FEq(row.ratio, row.lower_bound)) =>
         (row.trigger_alert = Undefined /\ row.signal = "undefined")

C5_Witness ==
  /\ result = "Row"
  /\ FEq(row.ratio, row.upper_bound)
  /\ row.trigger_alert = Undefined
  /\ Len(history) = 2
  /\ Breach([row EXCEPT !.ratio = history[1]])

\* The window's multiples of r up to n * r are exact: no sum of up to n
\* copies of r is rounded.
ExactMultiples(r, n) == r.k # "fin" \/ Abs(r.m) * n < 2 ^ Precision

\* C6 (as claimed): the returned average is the window's sum over its length,
\* it is v after one push of v on an empty window, and it is r after
\* MOVING_AVERAGE_WINDOW + 1 pushes of the same ratio r.
C6_AverageOfConstantIsConstant ==
  result = "Row" =>
    /\ row.moving_average =
         FDiv(reduceSum(movingAverageQueue), F(Len(movingAverageQueue)))
    /\ Len(history) = 1 => row.moving_average = history[1]
    /\ (Len(history) = MOVING_AVERAGE_WINDOW + 1 /\ AllEqual(history)) =>
         row.moving_average = history[1]

\* C6 (amended): the returned average is the left-to-right rounded sum of the
\* window after the push divided by its length; it is v after one push of v
\* on an empty window; and after MOVING_AVERAGE_WINDOW + 1 pushes of the same
\* r it is r when the multiples of r up to MOVING_AVERAGE_WINDOW * r are
\* exact.
C6_AverageIsRoundedSumOverLength ==
  result = "Row" =>
    /\ row.moving_average =
         FDiv(reduceSum(movingAverageQueue), F(Len(movingAverageQueue)))
    /\ Len(history) = 1 => row.moving_average = history[1]
    /\ (/\ Len(history) = MOVING_AVERAGE_WINDOW + 1
        /\ AllEqual(history)
        /\ ExactMultiples(history[1], MOVING_AVERAGE_WINDOW)) =>
         row.moving_average = history[1]

C6_Witness ==
  /\ result = "Row"
  /\ Len(history) = MOVING_AVERAGE_WINDOW + 1
  /\ AllEqual(history)
  /\ history[1].k = "fin"
  /\ Abs(history[1].m) > 1
  /\ ExactMultiples(history[1], MOVING_AVERAGE_WINDOW)
  /\ row.moving_average = history[1]

\* C7 (as claimed): the window a stream sees, and the moving_average of its
\* rows, are what they would be had the other stream never pushed.
C7_StreamsIsolated ==
  Called =>
    /\ movingAverageQueue = own[caller]
    /\ row.moving_average = FDiv(reduceSum(own[caller]), F(Len(own[caller])))

\* C8: Row.timestamp is the later of the two quotes' timestamps, also when
\* the two are equal.
C8_LatestTimestamp ==
  result = "Row" =>
    /\ row.timestamp >= input[1].timestamp
    /\ row.timestamp >= input[2].timestamp
    /\ row.timestamp \in {input[1].timestamp, input[2].timestamp}

C8_Witness ==
  /\ result = "Row"
  /\ input[1].timestamp > input[2].timestamp
  /\ row.timestamp = input[1].timestamp
  /\ Len(history) = 2
  /\ prevQueue # <<>>

HasNegativePrice(pair) ==
  \E i \in {1, 2} :
    IsNegative(pair[i].top_ask.price) \/ IsNegative(pair[i].top_bid.price)

\* C9 (as claimed): a pair with a negative ask or bid price fails with
\* InvalidQuote: no Row, and nothing pushed into the window.
C9_InvalidQuoteRaised ==
  (Called /\ HasNegativePrice(input)) =>
    (result = "InvalidQuote" /\ movingAverageQueue = prevQueue)

\* The first call on an empty window: moving_average is the ratio, the
\* signal is HOLD on a breach and undefined otherwise.
FirstCallHoldsOrNothing ==
  (result = "Row" /\ Len(history) = 1) =>
    /\ row.moving_average = row.ratio
    /\ row.signal \notin {"BUY", "SELL"}
    /\ (row.signal = "HOLD") <=> Breach(row)
    /\ (row.signal = "undefined") <=> ~Breach(row)

\* C10 (as claimed): the first call never gives BUY or SELL, and BUY or SELL
\* is only given when the window holds an earlier ratio that differs from the
\* current one.
C10_SignalNeedsDifferentEarlierRatio ==
  /\ FirstCallHoldsOrNothing
  /\ (result = "Row" /\ row.signal \in {"BUY", "SELL"}) =>
       \E i \in 1..(Len(movingAverageQueue) - 1) :
         movingAverageQueue[i] # row.ratio

\* C10 (amended): the first call never gives BUY or SELL, and BUY or SELL is
\* only given when the window holds an earlier ratio and the rounded average
\* differs from the current ratio (the earlier ratios may all equal it).
C10_SignalNeedsDifferentAverage ==
  /\ FirstCallHoldsOrNothing
  /\ (result = "Row" /\ row.signal \in {"BUY", "SELL"}) =>
       /\ Len(movingAverageQueue) >= 2
       /\ row.moving_average # row.ratio

C10_Witness ==
  /\ result = "Row"
  /\ row.signal = "SELL"
  /\ Len(movingAverageQueue) >= 2
  /\ AllEqual(movingAverageQueue)

=============================================================================
